---- MODULE Spec2Model ----
(***************************************************************************)
(* Model of gcode2vtk.py: the G-code line tokenizer (readGcodeLine), the   *)
(* extrusion-path reconstruction (readGcodeFile) and the VTK writer        *)
(* (write2VtkFile).                                                        *)
(*                                                                         *)
(* A line of text is a sequence of one-character strings.  A Python dict   *)
(* is a function whose DOMAIN is the set of keys present.  A float is an   *)
(* exact decimal [m |-> mantissa, e |-> number of fractional digits] with  *)
(* trailing zeros stripped, so that equal numbers are equal records.       *)
(***************************************************************************)
EXTENDS Integers, Sequences, FiniteSets, TLC

\* ------------------------------------------------------------------------
\* Bounds of the model
\* ------------------------------------------------------------------------
\* longest enumerated line handed to the tokenizer
MaxLineLen == 5
\* largest number of lines of an input file
MaxLines == 3

\* characters the enumerated lines are built from
Alphabet == {";", "G", "X", "E", "1", "0", "-", "."}

\* ------------------------------------------------------------------------
\* Characters and floats
\* ------------------------------------------------------------------------
Digits == {"0", "1", "2", "3", "4", "5", "6", "7", "8", "9"}

Signs == {"+", "-"}

DigitVal(c) ==
  CASE c = "0" -> 0 [] c = "1" -> 1 [] c = "2" -> 2 [] c = "3" -> 3
    [] c = "4" -> 4 [] c = "5" -> 5 [] c = "6" -> 6 [] c = "7" -> 7
    [] c = "8" -> 8 [] c = "9" -> 9

\* character at position p of the line, "" past its end
At(line, p) == IF p >= 1 /\ p <= Len(line) THEN line[p] ELSE ""

\* the text line[from .. to-1]
Slice(line, from, to) == SubSeq(line, from, to - 1)

\* a decimal with its trailing fractional zeros stripped
RECURSIVE Norm(_)
Norm(v) ==
  IF v.e > 0 /\ v.m % 10 = 0 THEN Norm([m |-> v.m \div 10, e |-> v.e - 1])
  ELSE v

RECURSIVE DigitsValue(_, _)
DigitsValue(txt, acc) ==
  IF txt = <<>> THEN acc
  ELSE IF Head(txt) \in Digits
       THEN DigitsValue(Tail(txt), 10 * acc + DigitVal(Head(txt)))
       ELSE DigitsValue(Tail(txt), acc)

RECURSIVE CountIn(_, _)
CountIn(txt, S) ==
  IF txt = <<>> THEN 0
  ELSE (IF Head(txt) \in S THEN 1 ELSE 0) + CountIn(Tail(txt), S)

RECURSIVE FracDigits(_)
FracDigits(txt) ==
  IF txt = <<>> THEN 0
  ELSE IF Head(txt) = "." THEN Len(txt) - 1
  ELSE FracDigits(Tail(txt))

\* float() accepts at most one leading sign; it raises ValueError otherwise
FloatRaises(txt) == CountIn(txt, Signs) > 1

\* float(txt) for a text float() accepts
Float(txt) ==
  LET mag == DigitsValue(txt, 0)
  IN  Norm([m |-> IF At(txt, 1) = "-" THEN 0 - mag ELSE mag,
            e |-> FracDigits(txt)])

\* ------------------------------------------------------------------------
\* readGcodeLine: the two regular expressions
\* ------------------------------------------------------------------------
\* position after the longest run of digits starting at p   (\d* , \d+)
RECURSIVE DigitsEnd(_, _)
DigitsEnd(line, p) ==
  IF At(line, p) \in Digits THEN DigitsEnd(line, p + 1) ELSE p

\* the pattern without its anchor: a ';' anywhere opens a comment
TypeMatchAt_AnySemicolon(line, p) ==
  IF At(line, p) = ";" THEN p + 1
  ELSE IF At(line, p) = "G" /\ At(line, p + 1) \in Digits
       THEN DigitsEnd(line, p + 1)
       ELSE 0

\* typeOfLinePattern = r"^(;)|([G]\d+)" tried at position p:
\* the end of the match, 0 when there is none
TypeMatchAt(line, p) ==
  IF p = 1 /\ At(line, 1) = ";" THEN 2
  ELSE IF At(line, p) = "G" /\ At(line, p + 1) \in Digits
       THEN DigitsEnd(line, p + 1)
       ELSE 0

\* re.search(typeOfLinePattern, line): the leftmost match as <<from, to>>,
\* <<0, 0>> for None
RECURSIVE TypeSearch(_, _)
TypeSearch(line, p) ==
  IF p > Len(line) THEN <<0, 0>>
  ELSE LET e == TypeMatchAt(line, p)
       IN  IF e # 0 THEN <<p, e>> ELSE TypeSearch(line, p + 1)

typeOfLineMatch(line) == TypeSearch(line, 1)

\* letters of the character class that opens coordinatePattern
AxisLetters == {"X", "Y", "Z", "E"}

\* ((\d+)(\.\d+)?) at r: end of the match, 0 when there is none
Alt1(line, r) ==
  IF At(line, r) \notin Digits THEN 0
  ELSE LET d == DigitsEnd(line, r)
       IN  IF At(line, d) = "." /\ At(line, d + 1) \in Digits
           THEN DigitsEnd(line, d + 1)
           ELSE d

\* (\d*)(\.\d+) at r: end of the match, 0 when there is none
DotNumber(line, r) ==
  LET d == DigitsEnd(line, r)
  IN  IF At(line, d) = "." /\ At(line, d + 1) \in Digits
      THEN DigitsEnd(line, d + 1)
      ELSE 0

\* ([+-]?(\d*)(\.\d+)) at r, the sign taken first and given back on failure
Alt2(line, r) ==
  LET d == DotNumber(line, r + 1)
  IN  IF At(line, r) \in Signs /\ d # 0 THEN d ELSE DotNumber(line, r)

\* the two alternatives in order
Alts(line, r) ==
  LET a == Alt1(line, r) IN IF a # 0 THEN a ELSE Alt2(line, r)

\* group 1 of coordinatePattern at q: ([+-]?) greedy, then the alternatives,
\* then the same with the sign given back; 0 when there is no match
NumberEnd(line, q) ==
  LET a == Alts(line, q + 1)
  IN  IF At(line, q) \in Signs /\ a # 0 THEN a ELSE Alts(line, q)

\* coordinatePattern tried at p: end of the match, 0 when there is none
CoordMatchAt(line, p) ==
  IF At(line, p) \in AxisLetters THEN NumberEnd(line, p + 1) ELSE 0

\* re.finditer(coordinatePattern, line): the matches <<from, to>> in order
RECURSIVE coordinateMatches(_, _)
coordinateMatches(line, p) ==
  IF p > Len(line) THEN <<>>
  ELSE LET e == CoordMatchAt(line, p)
       IN  IF e # 0 THEN << <<p, e>> >> \o coordinateMatches(line, e)
           ELSE coordinateMatches(line, p + 1)

\* output[k] = v
SetKey(output, k, v) ==
  [x \in (DOMAIN output) \cup {k} |-> IF x = k THEN v ELSE output[x]]

\* the if / elif chain on fullMatch[0]
StoreMatch(output, letter, val) ==
  LET o1 == IF letter = "F" THEN SetKey(output, "F", val) ELSE output
  IN  IF letter \in {"X", "Y", "Z", "E"} THEN SetKey(o1, letter, val)
      ELSE o1

\* the loop over the matches; float(match.group(1)) may raise
RECURSIVE ProcessMatches(_, _, _)
ProcessMatches(line, ms, output) ==
  IF ms = <<>> THEN [raised |-> FALSE, output |-> output]
  ELSE LET mt  == Head(ms)
           txt == Slice(line, mt[1] + 1, mt[2])
       IN  IF FloatRaises(txt) THEN [raised |-> TRUE, output |-> output]
           ELSE ProcessMatches(line, Tail(ms),
                               StoreMatch(output, line[mt[1]], Float(txt)))

\* the characters of txt joined into one string
RECURSIVE Join(_)
Join(txt) == IF txt = <<>> THEN "" ELSE Head(txt) \o Join(Tail(txt))

\* the type the first regular expression gives the line
LineType(line) ==
  LET tm == typeOfLineMatch(line)
  IN  IF tm[1] # 0
      THEN IF line[tm[1]] = ";" THEN "comment"
           ELSE Join(Slice(line, tm[1], tm[2]))
      ELSE "unknown"

\* readGcodeLine going on to the coordinates of a comment line
readGcodeLine_NoEarlyReturn(line) ==
  ProcessMatches(line, coordinateMatches(line, 1),
                 [k \in {"type"} |-> LineType(line)])

\* readGcodeLine(line): [raised |-> a ValueError escaped, output |-> dict]
readGcodeLine(line) ==
  LET output == [k \in {"type"} |-> LineType(line)]
  IN  IF output["type"] = "comment"
      THEN [raised |-> FALSE, output |-> output]
      ELSE ProcessMatches(line, coordinateMatches(line, 1), output)

\* ------------------------------------------------------------------------
\* hasCoordinate, hasExtrusion, getPoint
\* ------------------------------------------------------------------------
Zero == [m |-> 0, e |-> 0]

Origin == <<Zero, Zero, Zero>>

hasCoordinate(gcodeLine) ==
  \/ "X" \in DOMAIN gcodeLine
  \/ "Y" \in DOMAIN gcodeLine
  \/ "Z" \in DOMAIN gcodeLine

\* hasExtrusion without its call of hasCoordinate
hasExtrusion_NoCoordinate(gcodeLine) ==
  IF "E" \in DOMAIN gcodeLine THEN gcodeLine["E"].m > 0 ELSE FALSE

\* TRUE where the code returns True, FALSE where it returns False or None
hasExtrusion(gcodeLine) ==
  IF hasCoordinate(gcodeLine) /\ "E" \in DOMAIN gcodeLine
  THEN gcodeLine["E"].m > 0
  ELSE FALSE

\* getPoint starting from zero instead of from the current point
getPoint_ResetAxes(gcodeLine, currPt) ==
  LET x == IF "X" \in DOMAIN gcodeLine THEN gcodeLine["X"] ELSE Zero
      y == IF "Y" \in DOMAIN gcodeLine THEN gcodeLine["Y"] ELSE Zero
      z == IF "Z" \in DOMAIN gcodeLine THEN gcodeLine["Z"] ELSE Zero
  IN  IF {"X", "Y", "Z"} \cap DOMAIN gcodeLine # {} THEN <<x, y, z>>
      ELSE <<>>

\* the new point, or the empty tuple when the line has none of X, Y, Z
getPoint(gcodeLine, currPt) ==
  LET x == IF "X" \in DOMAIN gcodeLine THEN gcodeLine["X"] ELSE currPt[1]
      y == IF "Y" \in DOMAIN gcodeLine THEN gcodeLine["Y"] ELSE currPt[2]
      z == IF "Z" \in DOMAIN gcodeLine THEN gcodeLine["Z"] ELSE currPt[3]
      hasPoint == \/ "X" \in DOMAIN gcodeLine
                  \/ "Y" \in DOMAIN gcodeLine
                  \/ "Z" \in DOMAIN gcodeLine
  IN  IF hasPoint THEN <<x, y, z>> ELSE <<>>

\* ------------------------------------------------------------------------
\* write2VtkFile: a written line is the sequence of the pieces the code
\* concatenates; a float piece stands for its repr
\* ------------------------------------------------------------------------
DigitStr(d) ==
  CASE d = 0 -> "0" [] d = 1 -> "1" [] d = 2 -> "2" [] d = 3 -> "3"
    [] d = 4 -> "4" [] d = 5 -> "5" [] d = 6 -> "6" [] d = 7 -> "7"
    [] d = 8 -> "8" [] d = 9 -> "9"

\* str(n) for an integer n >= 0
RECURSIVE IntStr(_)
IntStr(n) ==
  IF n < 10 THEN DigitStr(n) ELSE IntStr(n \div 10) \o DigitStr(n % 10)

\* scaling * x
Mul(a, b) == Norm([m |-> a.m * b.m, e |-> a.e + b.e])

\* str(l) for a pair of integers
TupleStr(l) == <<"(", IntStr(l[1]), ",", " ", IntStr(l[2]), ")">>

\* re.sub(r"[,()]", "", txt)
RECURSIVE StripPunct(_)
StripPunct(txt) ==
  IF txt = <<>> THEN <<>>
  ELSE IF Head(txt) \in {",", "(", ")"} THEN StripPunct(Tail(txt))
  ELSE <<Head(txt)>> \o StripPunct(Tail(txt))

\* the point row written without the scaling
PointRow_Unscaled(p, scale) == <<p[1], " ", p[2], " ", p[3], "\n">>

PointRow(p, scale) ==
  <<Mul(scale, p[1]), " ", Mul(scale, p[2]), " ", Mul(scale, p[3]), "\n">>

LineRow(l) == <<"2 ">> \o StripPunct(TupleStr(l)) \o <<"\n">>

VtkHeader ==
  << <<"# vtk DataFile Version 2.0\n">>, <<"Some gcode\n">>, <<"ASCII\n">>,
     <<"DATASET POLYDATA\n">> >>

VtkText(pts, conn, scale) ==
  VtkHeader
    \o << <<"POINTS ", IntStr(Len(pts)), " float\n">> >>
    \o [k \in 1..Len(pts) |-> PointRow(pts[k], scale)]
    \o << <<"LINES ", IntStr(Len(conn)), " ", IntStr(3 * Len(conn)), "\n">> >>
    \o [k \in 1..Len(conn) |-> LineRow(conn[k])]

\* ------------------------------------------------------------------------
\* Inputs
\* ------------------------------------------------------------------------
\* every line of at most MaxLineLen characters of the alphabet
BoundedLines == UNION {[1..n -> Alphabet] : n \in 0..MaxLineLen}

\* the lines of testLineReader and others of the same kind
ExampleLines ==
  { <<"G","1"," ","X","4",".","4"," ","Y","-","4",".","4"," ","Z","0",".",
      "3"," ","E","0",".","3","3","1","0","7"," ","a","s","d","a","s","d",
      "a","s","d">>,
    <<"G","0","0">>,
    <<"G","0"," ","F","7","2","0","0"," ","X","6","8",".","1","3","5"," ",
      "Y","-",".","3","1","9">>,
    <<"T","I","M","E">>,
    <<"G","0"," ","F","7","2","0","0"," ","X"," ","Y","-",".","3","1","9">>,
    <<"X","4",".","4"," ","Y","-","4",".","4"," ","Z","0",".","3"," ","E",
      "0",".","3","3","1","0","7"," ","a","s","d","a","s","d","a","s","d">>,
    <<"G","1"," ","X","4",".","4"," ","Y","-","4",".","4"," ","Z","0",".",
      "3"," ","E","0",".","3","3","1","0","7">>,
    <<"G","1"," ","F","9","0">>,
    <<" ",";","X","1"," ","G","2","8">>,
    <<"G","1"," ","X","1"," ",";","X","2"," ","E","1">>,
    <<"G","1"," ","X","+","-","1",".","5"," ","Y","2">>,
    <<"G","1"," ","Y","2"," ","X","+","-","5">> }

TestLines == BoundedLines \cup ExampleLines

\* the lines input files are made of
FileLines ==
  { <<"G","1"," ","X","1"," ","E","1">>,
    <<"G","0"," ","X","1"," ","E","0">>,
    <<"G","0"," ","Z","0",".","3">>,
    <<"G","1"," ","X","4",".","4"," ","Y","-","4",".","4"," ","Z","0",".",
      "3"," ","E","0",".","3","3","1","0","7">>,
    <<"G","1"," ","E","1">>,
    <<"G","1"," ","X","2"," ","E","-","1">>,
    <<";","G","1"," ","X","2"," ","E","1">>,
    <<"Y","1"," ","E","1">>,
    <<"G","1"," ","X","0"," ",";","Y","0"," ","E","1">>,
    <<"G","1"," ","X","2"," ","E","1"," ","Y","+","-",".","5">> }

Files == UNION {[1..n -> FileLines] : n \in 0..MaxLines}

\* scale factors given on the command line; 1e-3 is the default
Scalings == {[m |-> 1, e |-> 3], [m |-> 1, e |-> 0], [m |-> 25, e |-> 1]}

\* ------------------------------------------------------------------------
\* State
\* ------------------------------------------------------------------------
VARIABLES
  pc,            \* where the program is
  lines,         \* the lines read from the file / the lines of the test
  i,             \* number of lines the loop has taken
  currLine,      \* the dict of the line taken last
  prevPoint,
  currPoint,
  pointList,
  connectivity,
  segmentList,   \* the segments of the docstring: one per line with extrusion
  scaling,       \* the scale factor write2VtkFile is called with
  f,             \* the lines written to the .vtk file
  ret            \* what readGcodeLine gave testLineReader

vars == <<pc, lines, i, currLine, prevPoint, currPoint, pointList,
          connectivity, segmentList, scaling, f, ret>>

NoReturn == [raised |-> FALSE, output |-> <<>>]

\* scaling=1e-3
DefaultScaling == [m |-> 1, e |-> 3]

\* the locals of readGcodeFile before its loop, nothing written yet
Locals ==
  /\ i = 0
  /\ currLine = <<>>
  /\ prevPoint = Origin
  /\ currPoint = Origin
  /\ pointList = <<>>
  /\ connectivity = <<>>
  /\ segmentList = <<>>
  /\ scaling = DefaultScaling
  /\ f = <<>>
  /\ ret = NoReturn

\* __main__: readGcodeFile starts its loop on the lines of the file
InitMain ==
  /\ pc = "reading"
  /\ lines \in Files
  /\ Locals

\* testLineReader starts on its lines
InitLine ==
  /\ pc = "testing"
  /\ lines \in {<<l>> : l \in TestLines}
  /\ Locals

Init == InitMain \/ InitLine

\* the body without the test against the last point added
AppendPoints_NoDedup(pts, prevPt, currPt) ==
  Append(Append(pts, prevPt), currPt)

\* the body testing against the first point added instead of the last
AppendPoints_FirstEntry(pts, prevPt, currPt) ==
  IF pts # <<>>
  THEN IF prevPt # pts[1]
       THEN Append(Append(pts, prevPt), currPt)
       ELSE Append(pts, currPt)
  ELSE Append(Append(pts, prevPt), currPt)

\* pointList after the body of "if hasExtrusion(currLine)"
AppendPoints(pts, prevPt, currPt) ==
  IF pts # <<>>
  THEN IF prevPt # pts[Len(pts)]
       THEN Append(Append(pts, prevPt), currPt)
       ELSE Append(pts, currPt)
  ELSE Append(Append(pts, prevPt), currPt)

\* the pair with one-based indices
NewPair_OneBased(pts) == <<Len(pts) - 1, Len(pts)>>

\* the pair appended to connectivity (zero indexing)
NewPair(pts) == <<Len(pts) - 2, Len(pts) - 1>>

\* one iteration of the loop whose line is a comment: continue
SkipComment ==
  /\ pc = "reading"
  /\ i < Len(lines)
  /\ LET r == readGcodeLine(lines[i + 1])
     IN  /\ ~r.raised
         /\ r.output["type"] = "comment"
         /\ currLine' = r.output
  /\ i' = i + 1
  /\ UNCHANGED <<pc, lines, prevPoint, currPoint, pointList, connectivity,
                 segmentList, scaling, f, ret>>

\* one iteration of the loop in which readGcodeLine raises: the ValueError
\* leaves readGcodeFile and ends the program
LineRaises ==
  /\ pc = "reading"
  /\ i < Len(lines)
  /\ readGcodeLine(lines[i + 1]).raised
  /\ pc' = "raised"
  /\ i' = i + 1
  /\ UNCHANGED <<lines, currLine, prevPoint, currPoint, pointList,
                 connectivity, segmentList, scaling, f, ret>>

\* one iteration of the loop on any other line
ProcessLine ==
  /\ pc = "reading"
  /\ i < Len(lines)
  /\ LET r == readGcodeLine(lines[i + 1])
         newPoint == getPoint(r.output, currPoint)
         pPt == IF newPoint # <<>> THEN currPoint ELSE prevPoint
         cPt == IF newPoint # <<>> THEN newPoint ELSE currPoint
         pts == AppendPoints(pointList, pPt, cPt)
     IN  /\ ~r.raised
         /\ r.output["type"] # "comment"
         /\ currLine' = r.output
         /\ prevPoint' = pPt
         /\ currPoint' = cPt
         /\ IF hasExtrusion(r.output)
            THEN /\ pointList' = pts
                 /\ connectivity' = Append(connectivity, NewPair(pts))
                 /\ segmentList' = Append(segmentList, <<currPoint, cPt>>)
            ELSE UNCHANGED <<pointList, connectivity, segmentList>>
  /\ i' = i + 1
  /\ UNCHANGED <<pc, lines, scaling, f, ret>>

\* the loop is over: return pointList, connectivity
ReturnLists ==
  /\ pc = "reading"
  /\ i = Len(lines)
  /\ pc' = "read"
  /\ UNCHANGED <<lines, i, currLine, prevPoint, currPoint, pointList,
                 connectivity, segmentList, scaling, f, ret>>

\* write2VtkFile( path2vtk, p, c, scaling )
write2VtkFile ==
  /\ pc = "read"
  /\ scaling' \in Scalings
  /\ f' = VtkText(pointList, connectivity, scaling')
  /\ pc' = "written"
  /\ UNCHANGED <<lines, i, currLine, prevPoint, currPoint, pointList,
                 connectivity, segmentList, ret>>

\* testLineReader: readGcodeLine on one line after the other
testLineReader ==
  /\ pc = "testing"
  /\ i < Len(lines)
  /\ ret' = readGcodeLine(lines[i + 1])
  /\ i' = i + 1
  /\ pc' = IF i + 1 = Len(lines) THEN "tested" ELSE pc
  /\ UNCHANGED <<lines, currLine, prevPoint, currPoint, pointList,
                 connectivity, segmentList, scaling, f>>

Next ==
  \/ SkipComment
  \/ LineRaises
  \/ ProcessLine
  \/ ReturnLists
  \/ write2VtkFile
  \/ testLineReader

Spec == Init /\ [][Next]_vars

\* ------------------------------------------------------------------------
\* Properties
\* ------------------------------------------------------------------------
\* a step of readGcodeFile's loop that took a line and got its token set
TookLine == pc = "reading" /\ i' = i + 1 /\ pc' = "reading"

\* the token set names a position
NamesPosition(t) == {"X", "Y", "Z"} \cap DOMAIN t # {}

\* the token set is one of a depositing move
Deposits(t) ==
  /\ t["type"] # "comment"
  /\ NamesPosition(t)
  /\ "E" \in DOMAIN t
  /\ t["E"].m >= 1

\* C1: a line appends to the Point List and to the Connectivity List if and
\* only if it is a non-comment line whose token set has one of X, Y, Z and
\* an E value strictly greater than zero, whatever its type and whether or
\* not the position changed; any other line leaves both lists as they are.
C1_ExtrusionIff ==
  [][TookLine =>
       IF Deposits(currLine')
       THEN /\ Len(pointList') > Len(pointList)
            /\ Len(connectivity') = Len(connectivity) + 1
       ELSE UNCHANGED <<pointList, connectivity>>]_vars

\* two depositing lines were read, one of type "unknown" and the second
\* without moving the head, and an E-only line after them appended nothing
C1_Witness ==
  /\ pc = "reading"
  /\ i = 3
  /\ currLine["type"] = "G1"
  /\ DOMAIN currLine = {"type", "E"}
  /\ currLine["E"].m > 0
  /\ Len(connectivity) = 2
  /\ segmentList[2][1] = segmentList[2][2]
  /\ "unknown" \in {readGcodeLine(lines[k]).output["type"] : k \in 1..2}

\* C2: an extrusion line processed while the last Point List entry equals
\* previousPosition appends currentPosition alone and its pair starts at the
\* index of that last entry; otherwise it appends previousPosition and
\* currentPosition.  So A->B then B->C gives [A,B,C] and [(0,1),(1,2)].
C2_SharedPoint ==
  /\ [][(TookLine /\ Len(connectivity') = Len(connectivity) + 1) =>
          IF pointList # <<>> /\ pointList[Len(pointList)] = prevPoint'
          THEN /\ pointList' = pointList \o <<currPoint'>>
               /\ connectivity'[Len(connectivity')][1] = Len(pointList) - 1
          ELSE pointList' = pointList \o <<prevPoint', currPoint'>>]_vars
  /\ [](Len(segmentList) = 2 /\ segmentList[1][2] = segmentList[2][1]
          => /\ pointList = <<segmentList[1][1], segmentList[1][2],
                              segmentList[2][2]>>
             /\ connectivity = << <<0, 1>>, <<1, 2>> >>)

\* A->B then B->C with A, B, C distinct has been read
C2_Witness ==
  /\ Len(segmentList) = 2
  /\ segmentList[1][2] = segmentList[2][1]
  /\ Cardinality({segmentList[1][1], segmentList[1][2],
                  segmentList[2][2]}) = 3
  /\ Len(pointList) = 3

\* the axis values a token set names, by position in the triple
AxisName == <<"X", "Y", "Z">>

\* C3: both positions start at the origin; a non-comment line with one of
\* X, Y, Z makes previousPosition the old currentPosition and sets each axis
\* of currentPosition to the line's value, or keeps the old value of an axis
\* the line does not name; a line with none of them leaves both unchanged.
C3_CarryOver ==
  /\ [](pc = "reading" /\ i = 0 => prevPoint = Origin /\ currPoint = Origin)
  /\ [][(TookLine /\ currLine'["type"] # "comment") =>
          IF NamesPosition(currLine')
          THEN /\ prevPoint' = currPoint
               /\ \A k \in 1..3 :
                    currPoint'[k] = IF AxisName[k] \in DOMAIN currLine'
                                    THEN currLine'[AxisName[k]]
                                    ELSE currPoint[k]
          ELSE UNCHANGED <<prevPoint, currPoint>>]_vars

\* a line naming Z alone was read after the head had left x = 0
C3_Witness ==
  /\ pc = "reading"
  /\ i >= 2
  /\ "Z" \in DOMAIN currLine
  /\ "X" \notin DOMAIN currLine
  /\ currPoint[1] # Zero
  /\ currPoint[3] = currLine["Z"]
  /\ prevPoint[3] # currPoint[3]

\* ------------------------------------------------------------------------
\* What a line says, read off its characters
\* ------------------------------------------------------------------------
\* a signed number starts at q: optional sign, then a digit or ".digit"
ValidNumberAt(line, q) ==
  LET r == IF At(line, q) \in Signs THEN q + 1 ELSE q
  IN  \/ At(line, r) \in Digits
      \/ At(line, r) = "." /\ At(line, r + 1) \in Digits

\* the positions where letter c is immediately followed by a signed number
Occurrences(line, c) ==
  {k \in 1..Len(line) : line[k] = c /\ ValidNumberAt(line, k + 1)}

Max(S) == CHOOSE k \in S : \A j \in S : j <= k

Min(S) == CHOOSE k \in S : \A j \in S : k <= j

\* the number that follows the last such occurrence of c
LastValue(line, c) ==
  LET k == Max(Occurrences(line, c))
  IN  Float(Slice(line, k + 1, NumberEnd(line, k + 1)))

\* the line has a ';' but not as its first character
MidSemicolon(line) ==
  /\ At(line, 1) # ";"
  /\ \E k \in 2..Len(line) : line[k] = ";"

\* the line with every ';' replaced by a blank
Blanked(line) == [k \in 1..Len(line) |-> IF line[k] = ";" THEN " " ELSE line[k]]

\* the positions of a 'G' followed by a digit
GCodes(line) ==
  {k \in 1..Len(line) : line[k] = "G" /\ At(line, k + 1) \in Digits}

\* the line the test step has tokenized
TestedLine == lines[1]

\* C6: a line that starts with ';' is inert: readGcodeLine gives it type
\* "comment" and no other field, whatever follows the ';', and readGcodeFile
\* takes it without changing previousPosition, currentPosition, the Point
\* List or the Connectivity List.
C6_CommentInert ==
  /\ [][(pc = "reading" /\ i' = i + 1 /\ At(lines[i + 1], 1) = ";") =>
          /\ pc' = "reading"
          /\ currLine' = [type |-> "comment"]
          /\ UNCHANGED <<prevPoint, currPoint, pointList, connectivity>>]_vars
  /\ [](pc = "tested" /\ At(TestedLine, 1) = ";"
          => ret = [raised |-> FALSE, output |-> [type |-> "comment"]])

\* a comment line holding coordinate tokens was read after a segment had
\* been stored
C6_Witness ==
  /\ pc = "reading"
  /\ i >= 2
  /\ At(lines[i], 1) = ";"
  /\ Occurrences(lines[i], "X") # {}
  /\ Occurrences(lines[i], "E") # {}
  /\ currLine["type"] = "comment"
  /\ pointList # <<>>
  /\ currPoint # Origin

IsPrefix(a, b) == Len(a) <= Len(b) /\ SubSeq(b, 1, Len(a)) = a

\* C7 as stated: no two adjacent entries of the Point List are equal.
C7_NoAdjacentEqual ==
  \A k \in 1..(Len(pointList) - 1) : pointList[k] # pointList[k + 1]

\* C7 amended: the Point List is append-only, and two adjacent entries are
\* equal only where they are the two ends of one connectivity pair, stored
\* by an extrusion line that left the position where it was.
C7_AppendOnlyDedup ==
  /\ [][IsPrefix(pointList, pointList')]_vars
  /\ [](\A k \in 1..(Len(pointList) - 1) :
          pointList[k] = pointList[k + 1] =>
            \E j \in 1..Len(connectivity) :
              /\ connectivity[j] = <<k - 1, k>>
              /\ segmentList[j][1] = segmentList[j][2])

\* the shared point of two segments was stored once, and a segment of
\* length zero was stored with both its ends
C7_Witness ==
  /\ Len(connectivity) = 3
  /\ Len(pointList) = 4
  /\ \E k \in 1..3 : pointList[k] = pointList[k + 1]
  /\ \E k \in 1..3 : pointList[k] # pointList[k + 1]

RECURSIVE Pow10(_)
Pow10(n) == IF n = 0 THEN 1 ELSE 10 * Pow10(n - 1)

\* out = in * scale, as exact decimals
Scaled(out, in, scale) ==
  out.m * Pow10(in.e + scale.e) = in.m * scale.m * Pow10(out.e)

\* the decimal numerals of 0, 1, 2, ...
Numerals ==
  <<"0", "1", "2", "3", "4", "5", "6", "7", "8", "9", "10", "11", "12",
    "13", "14", "15", "16", "17", "18", "19", "20", "21", "22", "23", "24",
    "25", "26", "27", "28", "29", "30">>

Numeral(n) == Numerals[n + 1]

\* C8: write2VtkFile writes the four header lines, "POINTS N float", one row
\* per point in list order with every coordinate multiplied by the scale
\* factor, "LINES M 3*M", and one row "2 i j" per connectivity pair in list
\* order.
C8_VtkLayout ==
  pc = "written" =>
    LET N == Len(pointList)
        M == Len(connectivity)
    IN  /\ Len(f) = 4 + 1 + N + 1 + M
        /\ f[1] = <<"# vtk DataFile Version 2.0\n">>
        /\ f[2] = <<"Some gcode\n">>
        /\ f[3] = <<"ASCII\n">>
        /\ f[4] = <<"DATASET POLYDATA\n">>
        /\ f[5] = <<"POINTS ", Numeral(N), " float\n">>
        /\ \A k \in 1..N :
             /\ Len(f[5 + k]) = 6
             /\ f[5 + k][2] = " " /\ f[5 + k][4] = " " /\ f[5 + k][6] = "\n"
             /\ \A a \in 1..3 :
                  Scaled(f[5 + k][2 * a - 1], pointList[k][a], scaling)
        /\ f[6 + N] = <<"LINES ", Numeral(M), " ", Numeral(3 * M), "\n">>
        /\ \A k \in 1..M :
             f[6 + N + k] = <<"2 ", Numeral(connectivity[k][1]), " ",
                              Numeral(connectivity[k][2]), "\n">>

\* three points and two segments were written with a scale factor other
\* than one
C8_Witness ==
  /\ pc = "written"
  /\ Len(pointList) >= 3
  /\ Len(connectivity) >= 2
  /\ scaling # [m |-> 1, e |-> 0]
  /\ \E k \in 1..Len(pointList) : pointList[k][1] # Zero

\* readGcodeLine returns a token set of a depositing move for the line
DepositsLine(line) ==
  LET r == readGcodeLine(line) IN ~r.raised /\ Deposits(r.output)

InMain == pc \in {"reading", "read", "written", "raised"}

\* C9: the Connectivity List holds one pair per extrusion line, in line
\* order; the k-th pair is (a, a+1) with 0 <= a and a+1 < len(Point List),
\* the first indices increase strictly, and the two points are the position
\* before and the position after the k-th extrusion line.  A move to
\* (0,0,0.3) without extrusion and an extruding move to (4.4,-4.4,0.3) give
\* points [(0,0,0.3),(4.4,-4.4,0.3)] and connectivity [(0,1)].
C9_Connectivity ==
  InMain =>
    /\ Len(connectivity) = Cardinality({k \in 1..i : DepositsLine(lines[k])})
    /\ Len(segmentList) = Len(connectivity)
    /\ \A k \in 1..Len(connectivity) :
         LET a == connectivity[k][1]
         IN  /\ connectivity[k] = <<a, a + 1>>
             /\ 0 <= a
             /\ a + 1 < Len(pointList)
             /\ pointList[a + 1] = segmentList[k][1]
             /\ pointList[a + 2] = segmentList[k][2]
    /\ \A k \in 1..(Len(connectivity) - 1) :
         connectivity[k][1] < connectivity[k + 1][1]
    /\ (/\ pc = "read"
        /\ lines = << <<"G","0"," ","Z","0",".","3">>,
                      <<"G","1"," ","X","4",".","4"," ","Y","-","4",".","4",
                        " ","Z","0",".","3"," ","E","0",".","3","3","1","0",
                        "7">> >>)
         => /\ pointList = << <<Zero, Zero, [m |-> 3, e |-> 1]>>,
                              <<[m |-> 44, e |-> 1], [m |-> -44, e |-> 1],
                                [m |-> 3, e |-> 1]>> >>
            /\ connectivity = << <<0, 1>> >>

\* two extrusion lines with a move without extrusion between them were
\* read: the second pair does not start where the first ends
C9_Witness ==
  /\ pc = "read"
  /\ i = 3
  /\ Len(connectivity) = 2
  /\ Len(pointList) = 4
  /\ connectivity[2] = <<2, 3>>
  /\ pointList[2] # pointList[3]

\* C10: only a ';' that is the first character makes a comment.  A line
\* with a ';' further on gets the type of its first 'G'-and-digits, wherever
\* that is, or "unknown"; the whole line is scanned for coordinate tokens,
\* the text after the ';' included, the last occurrence of a letter winning;
\* and readGcodeFile takes the line as an ordinary move.
C10_MidSemicolon ==
  /\ [](pc = "tested" /\ MidSemicolon(TestedLine) =>
          LET line == TestedLine
              out  == ret.output
          IN  /\ out["type"] # "comment"
              /\ out["type"] =
                   IF GCodes(line) = {} THEN "unknown"
                   ELSE Join(Slice(line, Min(GCodes(line)),
                                   DigitsEnd(line, Min(GCodes(line)) + 1)))
              /\ ret = readGcodeLine(Blanked(line))
              /\ ~ret.raised =>
                   \A c \in {"X", "Y", "Z", "E"} :
                     /\ c \in DOMAIN out <=> Occurrences(line, c) # {}
                     /\ c \in DOMAIN out => out[c] = LastValue(line, c))
  /\ [][(TookLine /\ MidSemicolon(lines[i + 1])) =>
          /\ currLine'["type"] # "comment"
          /\ \A c \in {"X", "Y", "Z", "E"} :
               /\ c \in DOMAIN currLine' <=> Occurrences(lines[i + 1], c) # {}
               /\ c \in DOMAIN currLine' =>
                    currLine'[c] = LastValue(lines[i + 1], c)
          /\ NamesPosition(currLine') => prevPoint' = currPoint
          /\ Deposits(currLine') =>
               Len(connectivity') = Len(connectivity) + 1]_vars

\* a line whose E value stands after a ';' was read and stored a segment
C10_Witness ==
  /\ pc = "reading"
  /\ i >= 1
  /\ MidSemicolon(lines[i])
  /\ \E k \in 1..Len(lines[i]) :
       /\ lines[i][k] = ";"
       /\ \A j \in Occurrences(lines[i], "E") : j > k
  /\ "E" \in DOMAIN currLine
  /\ Len(connectivity) >= 1
  /\ pointList[Len(pointList)] = currPoint

\* C4: readGcodeLine never raises, whatever the line, and an axis letter
\* not followed by a valid signed number is skipped: its key is populated
\* only by an occurrence that is followed by one.
C4_NeverRaises ==
  /\ pc # "raised"
  /\ pc = "tested" =>
       /\ ~ret.raised
       /\ ret.output["type"] # "comment" =>
            \A c \in {"X", "Y", "Z", "E"} :
              c \in DOMAIN ret.output <=> Occurrences(TestedLine, c) # {}

\* C5: for a non-comment line readGcodeLine populates a key for every one
\* of X, Y, Z, E and F that occurs immediately followed by a signed number,
\* with the value of the last such occurrence.
C5_AllLetters ==
  /\ (pc = "tested" /\ ~ret.raised /\ ret.output["type"] # "comment") =>
        \A c \in {"X", "Y", "Z", "E", "F"} :
          Occurrences(TestedLine, c) # {} =>
            /\ c \in DOMAIN ret.output
            /\ ret.output[c] = LastValue(TestedLine, c)
  /\ (/\ pc = "tested"
      /\ TestedLine = <<"G","0"," ","F","7","2","0","0"," ","X","6","8",".",
                        "1","3","5"," ","Y","-",".","3","1","9">>)
       => ret.output = [type |-> "G0", F |-> [m |-> 7200, e |-> 0],
                        X |-> [m |-> 68135, e |-> 3],
                        Y |-> [m |-> -319, e |-> 3]]
  /\ (/\ pc = "tested"
      /\ TestedLine = <<"G","1"," ","X","4",".","4"," ","Y","-","4",".","4",
                        " ","Z","0",".","3"," ","E","0",".","3","3","1","0",
                        "7">>)
       => ret.output = [type |-> "G1", X |-> [m |-> 44, e |-> 1],
                        Y |-> [m |-> -44, e |-> 1], Z |-> [m |-> 3, e |-> 1],
                        E |-> [m |-> 33107, e |-> 5]]

====
